---- MODULE Spec2Model ----
(***************************************************************************)
(* A model of feincms3_forms/models.py and of the test application's       *)
(* plugins (tests/testapp/models.py).                                      *)
(*                                                                         *)
(* Python strings whose characters matter are sequences of one-character   *)
(* strings.  Each component of the program has its own variables, its own  *)
(* initial condition and its own specification; the variables of the       *)
(* other components stay at their idle values.                             *)
(***************************************************************************)
EXTENDS Integers, Sequences, FiniteSets, TLC

VARIABLES
    row,        \* a SimpleFieldBase row: name, type and the three flags
    shown,      \* the last should_show_field call and what it returned
    nameIn,     \* the value handed to NameField cleaning
    nameOut,    \* the outcome of NameField cleaning
    ft_kwargs,  \* the items of a FormType (a dict): attribute -> value
    ft_dict,    \* the instance __dict__ of the FormType: what setattr stored
    binding,    \* how often the attributes of the modules were rebound
    log,        \* the attribute accesses made on the FormType, in order
    classes,    \* the plugin classes: base, columns and class attributes
    tables,     \* per plugin class, its rows in storage order
    unionOut,   \* the last get_formfields_union call and what it returned
    choices,    \* SimpleFieldBase.choices of a row
    default_value,  \* SimpleFieldBase.default_value of the row
    label,      \* FormField.label of the row
    exclude,    \* the exclude argument of clean_fields
    choicesOut, \* what get_choices returned
    cleanOut,   \* how clean_fields ended
    submitted,  \* the data submitted to the assembled form
    formOut,    \* the outcome of validating the form
    plugin,     \* a concrete plugin class
    calls,      \* the contract methods called on an instance of it, in order
    built,      \* the last get_fields call and what it returned
    inst,       \* an instance of SimpleField or of one of its proxy subclasses
    stored,     \* the row of the instance in the table the proxies share
    lastSave,   \* the last call of save on the instance and how it ended
    cform,      \* a ConfiguredForm instance: form_type and the instance __dict__
    reads       \* the reads of regions on the instance, in order

showVars == <<row, shown>>
nameVars == <<nameIn, nameOut>>
typeVars == <<ft_kwargs, ft_dict, binding, log>>
unionVars == <<classes, tables, unionOut>>
simpleVars == <<choices, default_value, label, exclude, choicesOut, cleanOut>>
formVars == <<submitted, formOut>>
pluginVars == <<plugin, calls>>
fieldsVars == <<built>>
saveVars == <<inst, stored, lastSave>>
regionVars == <<cform, reads>>
vars == <<showVars, nameVars, typeVars, unionVars, simpleVars, formVars,
          pluginVars, fieldsVars, saveVars, regionVars>>

notShow == <<nameVars, typeVars, unionVars, simpleVars, formVars, pluginVars,
             fieldsVars, saveVars, regionVars>>
notName == <<showVars, typeVars, unionVars, simpleVars, formVars, pluginVars,
             fieldsVars, saveVars, regionVars>>
notType == <<showVars, nameVars, unionVars, simpleVars, formVars, pluginVars,
             fieldsVars, saveVars, regionVars>>
notUnion == <<showVars, nameVars, typeVars, simpleVars, formVars, pluginVars,
              fieldsVars, saveVars, regionVars>>
notSimple == <<showVars, nameVars, typeVars, unionVars, formVars, pluginVars,
               fieldsVars, saveVars, regionVars>>
notForm == <<showVars, nameVars, typeVars, unionVars, simpleVars, pluginVars,
             fieldsVars, saveVars, regionVars>>
notPlugin == <<showVars, nameVars, typeVars, unionVars, simpleVars, formVars,
               fieldsVars, saveVars, regionVars>>
notFields == <<showVars, nameVars, typeVars, unionVars, simpleVars, formVars,
               pluginVars, saveVars, regionVars>>
notSave == <<showVars, nameVars, typeVars, unionVars, simpleVars, formVars,
             pluginVars, fieldsVars, regionVars>>
notRegions == <<showVars, nameVars, typeVars, unionVars, simpleVars,
                formVars, pluginVars, fieldsVars, saveVars>>

\* All strings over chars of length 0..n.
Strings(chars, n) == UNION {[1..k -> chars] : k \in 0..n}

NL == "\n"

(***************************************************************************)
(* FormField.should_show_field                                             *)
(***************************************************************************)

\* SimpleFieldBase.Type
Type ==
    {"text", "email", "url", "date", "integer", "textarea", "checkbox",
     "select", "radio", "select-multiple", "checkbox-select-multiple"}

\* The value of type before the first save: the CharField's default.
Unsaved == ""

\* The names of the rows of the model.
RowNames == {"email", "field_a9"}

Rows ==
    [name : RowNames, type : Type \cup {Unsaved}, is_visible : BOOLEAN,
     is_editable : BOOLEAN, is_required : BOOLEAN]

\* should_show_field with the "not" of the last branch lost.
should_show_field_Mut(self, is_update) ==
    IF ~self.is_visible THEN FALSE
    ELSE IF self.is_editable THEN TRUE
    ELSE is_update

should_show_field(self, is_update) ==
    IF ~self.is_visible THEN FALSE
    ELSE IF self.is_editable THEN TRUE
    ELSE ~is_update

NoShow == [called |-> FALSE, is_update |-> FALSE, result |-> FALSE]

ShowIdle ==
    /\ row = [name |-> "email", type |-> Unsaved, is_visible |-> TRUE,
              is_editable |-> TRUE, is_required |-> TRUE]
    /\ shown = NoShow

ShowInit ==
    /\ row \in Rows
    /\ shown = NoShow

ShouldShowField ==
    \E is_update \in BOOLEAN :
        /\ shown' = [called |-> TRUE, is_update |-> is_update,
                     result |-> should_show_field(row, is_update)]
        /\ UNCHANGED <<row, notShow>>

(***************************************************************************)
(* NameField: to_python and the validators of __init__                     *)
(***************************************************************************)

RANDOM_STRING_CHARS ==
    {"a", "b", "c", "d", "e", "f", "g", "h", "i", "j", "k", "l", "m", "n",
     "o", "p", "q", "r", "s", "t", "u", "v", "w", "x", "y", "z",
     "0", "1", "2", "3", "4", "5", "6", "7", "8", "9"}

\* The characters of the class [a-z0-9_].
NameAllowed == RANDOM_STRING_CHARS \cup {"_"}

\* The characters the modelled inputs are made of.
NameChars == {"a", "9", "_", "A", "-", NL}

\* The characters get_random_string draws in the model.
RandomSample == {"a", "9"}

MaxNameLen == 3
TokenLen == 10
NameField_max_length == 50

FieldPrefix == <<"f", "i", "e", "l", "d", "_">>

\* re.search(r"^[a-z0-9_]+$", value): "$" matches at the end of the string
\* and also just before a newline that ends the string.
RegexValidator(value) ==
    LET n == Len(value)
        body == IF n > 0 /\ value[n] = NL THEN SubSeq(value, 1, n - 1)
                ELSE value
    IN  /\ Len(body) >= 1
        /\ \A i \in 1..Len(body) : body[i] \in NameAllowed

MaxLengthValidator(value) == Len(value) <= NameField_max_length

\* The values to_python may return for value.
NameField_to_python(value) ==
    IF value = <<>>
    THEN {FieldPrefix \o suffix : suffix \in [1..TokenLen -> RandomSample]}
    ELSE {value}

NoName == [done |-> FALSE, value |-> <<>>, invalid |-> FALSE]

NameIdle ==
    /\ nameIn = <<>>
    /\ nameOut = NoName

NameInit ==
    /\ nameIn \in Strings(NameChars, MaxNameLen)
    /\ nameOut = NoName

\* Field.clean of the model field: to_python, then the validators.
NameClean ==
    /\ ~nameOut.done
    /\ \E value \in NameField_to_python(nameIn) :
        nameOut' = [done |-> TRUE, value |-> value,
                    invalid |-> ~(RegexValidator(value)
                                  /\ MaxLengthValidator(value))]
    /\ UNCHANGED <<nameIn, notName>>

(***************************************************************************)
(* FormType.__getattr__                                                    *)
(***************************************************************************)

MaxSegs == 3
MaxAccess == 2
MaxRebind == 1

\* Segments matching \w+, and one that does not.
Words == {"testapp", "forms", "validate"}
Names == Words \cup {"contact form"}

\* A string is the sequence of the segments its dots separate.
Paths == UNION {[1..k -> Names] : k \in 1..MaxSegs}

StrValue(path) == [kind |-> "str", path |-> path, version |-> 0]
ObjValue(path, version) == [kind |-> "obj", path |-> path, version |-> version]

\* forms.Form, the default of form_class.
FormClass == ObjValue(<<"django", "forms", "Form">>, 0)

\* The attributes read in the model; "process" is no item of the dict.
Attrs == {"validate", "form_class", "process"}

\* The importable modules and the attributes each one has.
Modules == {<<"testapp">>, <<"testapp", "forms">>}
ModuleAttrs(module) ==
    IF module = <<"testapp">> THEN {"forms"}
    ELSE IF module = <<"testapp", "forms">> THEN {"validate"}
    ELSE {}

\* re.match(r"^\w+\.([\w\.]+)+$", value)
RegexMatch(path) ==
    /\ Len(path) >= 2
    /\ \A i \in 1..Len(path) : path[i] \in Words

\* django.utils.module_loading.import_string: import the module named by all
\* but the last segment, then read the last segment as its attribute.
import_string(path, bind) ==
    LET module_path == SubSeq(path, 1, Len(path) - 1)
        class_name == path[Len(path)]
    IN  IF module_path \notin Modules
        THEN [outcome |-> "ModuleNotFoundError", value |-> StrValue(path)]
        ELSE IF class_name \notin ModuleAttrs(module_path)
        THEN [outcome |-> "ImportError", value |-> StrValue(path)]
        ELSE [outcome |-> "ok", value |-> ObjValue(path, bind)]

\* Lines 33-36: the value looked up and, for a path-like string, imported.
Lookup(kwargs, attr, bind) ==
    IF attr \notin DOMAIN kwargs
    THEN [outcome |-> "AttributeError", value |-> StrValue(<<attr>>),
          imported |-> FALSE]
    ELSE LET value == kwargs[attr] IN
         IF value.kind = "str" /\ RegexMatch(value.path)
         THEN LET imp == import_string(value.path, bind) IN
              IF imp.outcome = "ImportError"
              THEN [outcome |-> "ImportError", value |-> value,
                    imported |-> TRUE]
              ELSE [outcome |-> "value", value |-> imp.value,
                    imported |-> TRUE]
         ELSE [outcome |-> "value", value |-> value, imported |-> FALSE]

\* __getattr__ without line 38: the value is returned but not stored.
FormType_getattr_Mut(kwargs, attr, bind) ==
    LET r == Lookup(kwargs, attr, bind)
    IN  [outcome |-> r.outcome, value |-> r.value, imported |-> r.imported,
         set |-> FALSE]

\* __getattr__: setattr(self, attr, value) unless an exception left earlier.
FormType_getattr(kwargs, attr, bind) ==
    LET r == Lookup(kwargs, attr, bind)
    IN  [outcome |-> r.outcome, value |-> r.value, imported |-> r.imported,
         set |-> (r.outcome = "value")]

TypeIdle ==
    /\ ft_kwargs = [a \in {"validate", "form_class"} |-> FormClass]
    /\ ft_dict = <<>>
    /\ binding = 0
    /\ log = <<>>

TypeInit ==
    /\ \E path \in Paths :
        ft_kwargs = [a \in {"validate", "form_class"} |->
                        IF a = "validate" THEN StrValue(path) ELSE FormClass]
    /\ ft_dict = <<>>
    /\ binding = 0
    /\ log = <<>>

\* formtype.<attr>: the instance __dict__ first; __getattr__ only on a miss.
Getattr ==
    \E attr \in Attrs :
        /\ Len(log) < MaxAccess
        /\ LET r == IF attr \in DOMAIN ft_dict
                    THEN [outcome |-> "value", value |-> ft_dict[attr],
                          imported |-> FALSE, set |-> FALSE]
                    ELSE FormType_getattr(ft_kwargs, attr, binding)
           IN  /\ log' = Append(log, [attr |-> attr, outcome |-> r.outcome,
                                      value |-> r.value,
                                      imported |-> r.imported,
                                      bind |-> binding])
               /\ ft_dict' = IF r.set
                             THEN [a \in DOMAIN ft_dict \cup {attr} |->
                                     IF a = attr THEN r.value ELSE ft_dict[a]]
                             ELSE ft_dict
        /\ UNCHANGED <<ft_kwargs, binding, notType>>

\* The environment rebinds the attributes of the modules to other objects.
Rebind ==
    /\ binding < MaxRebind
    /\ binding' = binding + 1
    /\ UNCHANGED <<ft_kwargs, ft_dict, log, notType>>

(***************************************************************************)
(* ConfiguredForm.get_formfields_union                                     *)
(***************************************************************************)

MaxRows == 3
MaxAttrs == 2

\* Python values: str, bool and None.
PyStr(x) == [t |-> "str", v |-> x]
PyBool(b) == [t |-> "bool", v |-> IF b THEN "True" ELSE "False"]
PyNone == [t |-> "none", v |-> "None"]

\* The attributes a caller asks for in the model.
UnionAttrs == {"label", "is_collapsible", "type"}

\* The default of an attribute no column and no class attribute provides.
FIELD_DEFAULTS(attribute) ==
    IF attribute \in {"is_collapsible", "is_collapse_below",
                      "is_collapsed_by_default"}
    THEN PyBool(FALSE)
    ELSE PyStr("")

\* Value(value, output_field=models.TextField()): the text field prepares
\* the parameter with to_python, which is str(value) for what is no str.
TextValue(value) == PyStr(value.v)

\* set_field_type: every concrete FormFieldBase subclass gets the class
\* attribute type, its lower-cased class name.
\* A is a SimpleFieldBase subclass: label and type are columns.
ClassA ==
    [fieldbase |-> TRUE, columns |-> {"label", "type"},
     classattrs |-> [a \in {"type"} |-> PyStr("a")]]

\* PlainText does not inherit FormFieldBase.
ClassPlainText ==
    [fieldbase |-> FALSE, columns |-> {}, classattrs |-> <<>>]

\* B is a FormFieldBase subclass without label; is_collapsible is a column
\* of it, a class attribute (None, False or True), or absent.
ClassB(shape) ==
    [fieldbase |-> TRUE,
     columns |-> IF shape = "column" THEN {"is_collapsible"} ELSE {},
     classattrs |->
        [a \in {"type"} \cup
               (IF shape \in {"None", "False", "True"}
                THEN {"is_collapsible"} ELSE {}) |->
            IF a = "type" THEN PyStr("b")
            ELSE IF shape = "None" THEN PyNone
            ELSE PyBool(shape = "True")]]

Shapes == {"column", "absent", "None", "False", "True"}

Plugins == {"A", "B", "PlainText"}

\* The plugins arguments of the model.
PluginLists == {<<"A", "B", "PlainText">>, <<"B", "A">>, <<"PlainText">>}

AttributeLists == UNION {[1..k -> UnionAttrs] : k \in 0..MaxAttrs}

\* The aggregate get_formfields_union is called on.
Self == 1

\* getattr(plugin, attribute, None)
ClassAttr(cls, attribute) ==
    IF attribute \in DOMAIN cls.classattrs THEN cls.classattrs[attribute]
    ELSE PyNone

\* Lines 203-215: the annotation of one requested attribute, for one row.
Annotation(cls, r, attribute) ==
    IF attribute \in cls.columns
    THEN r.cols[attribute]
    ELSE IF ClassAttr(cls, attribute) # PyNone
    THEN TextValue(ClassAttr(cls, attribute))
    ELSE FIELD_DEFAULTS(attribute)

\* Lines 193-217 and 219-222 for one plugin: its rows of this parent, in
\* storage order, each as (name, {attribute: value}).
Projection(cls, rows, attributes) ==
    LET mine == SelectSeq(rows, LAMBDA r : r.parent = Self)
    IN  [i \in 1..Len(mine) |->
            [name |-> mine[i].name,
             attrs |-> [a \in {attributes[k] : k \in 1..Len(attributes)} |->
                            Annotation(cls, mine[i], a)]]]

RECURSIVE UnionAll(_, _, _, _)
\* Line 218: the projections of the eligible plugins, concatenated.
UnionAll(cl, tb, plugins, attributes) ==
    IF plugins = <<>> THEN <<>>
    ELSE (IF cl[Head(plugins)].fieldbase
          THEN Projection(cl[Head(plugins)], tb[Head(plugins)], attributes)
          ELSE <<>>)
         \o UnionAll(cl, tb, Tail(plugins), attributes)

\* querysets[0] of line 218 raises IndexError when no plugin is eligible.
get_formfields_union(cl, tb, plugins, attributes) ==
    IF \A i \in 1..Len(plugins) : ~cl[plugins[i]].fieldbase
    THEN [outcome |-> "IndexError", value |-> <<>>]
    ELSE [outcome |-> "value",
          value |-> UnionAll(cl, tb, plugins, attributes)]

NoUnion ==
    [called |-> FALSE, plugins |-> <<>>, attributes |-> <<>>,
     outcome |-> "value", value |-> <<>>]

RowCount == Len(tables["A"]) + Len(tables["B"]) + Len(tables["PlainText"])

UnionIdle ==
    /\ classes = [c \in Plugins |->
                    IF c = "A" THEN ClassA
                    ELSE IF c = "B" THEN ClassB("absent")
                    ELSE ClassPlainText]
    /\ tables = [c \in Plugins |-> <<>>]
    /\ unionOut = NoUnion

UnionInit ==
    /\ \E shape \in Shapes :
        classes = [c \in Plugins |->
                    IF c = "A" THEN ClassA
                    ELSE IF c = "B" THEN ClassB(shape)
                    ELSE ClassPlainText]
    /\ tables = [c \in Plugins |-> <<>>]
    /\ unionOut = NoUnion

\* An editor adds a row of plugin class c to an aggregate; the row's name
\* is a fresh identifier, its ordering any position.
AddRow ==
    \E c \in {"A", "B"}, parent \in {Self, 2}, ordering \in 1..MaxRows,
       collapsible \in BOOLEAN :
        /\ ~unionOut.called
        /\ RowCount < MaxRows
        /\ ("is_collapsible" \notin classes[c].columns => ~collapsible)
        /\ tables' = [tables EXCEPT ![c] =
                Append(@, [name |-> RowCount + 1, parent |-> parent,
                           ordering |-> ordering,
                           cols |-> [label |-> PyStr("Label"),
                                     type |-> PyStr("text"),
                                     is_collapsible |-> PyBool(collapsible)]])]
        /\ UNCHANGED <<classes, unionOut, notUnion>>

GetFormfieldsUnion ==
    \E plugins \in PluginLists, attributes \in AttributeLists :
        /\ ~unionOut.called
        /\ LET r == get_formfields_union(classes, tables, plugins, attributes)
           IN  unionOut' = [called |-> TRUE, plugins |-> plugins,
                            attributes |-> attributes,
                            outcome |-> r.outcome, value |-> r.value]
        /\ UNCHANGED <<classes, tables, notUnion>>

(***************************************************************************)
(* SimpleFieldBase.get_choices and SimpleFieldBase.clean_fields            *)
(***************************************************************************)

MaxChoicesLen == 4
MaxCleanLen == 3
MaxDefaultLen == 1

ChoiceChars == {"a", "b", "|", " ", NL}
DefaultChars == {"a", "b", " "}

\* The index of the first c in s, 0 when there is none.
Find(s, c) ==
    IF \E i \in 1..Len(s) : s[i] = c
    THEN CHOOSE i \in 1..Len(s) : s[i] = c /\ \A j \in 1..(i - 1) : s[j] # c
    ELSE 0

\* The index of the last c in s, 0 when there is none.
RFind(s, c) ==
    IF \E i \in 1..Len(s) : s[i] = c
    THEN CHOOSE i \in 1..Len(s) :
            s[i] = c /\ \A j \in (i + 1)..Len(s) : s[j] # c
    ELSE 0

RECURSIVE splitlines(_)
\* str.splitlines(): the text between line breaks, no empty last line.
splitlines(s) ==
    IF s = <<>> THEN <<>>
    ELSE LET k == Find(s, NL) IN
         IF k = 0 THEN <<s>>
         ELSE <<SubSeq(s, 1, k - 1)>> \o splitlines(SubSeq(s, k + 1, Len(s)))

RECURSIVE strip(_)
\* str.strip(): leading and trailing whitespace removed.
strip(s) ==
    IF s = <<>> THEN s
    ELSE IF s[1] \in {" ", NL} THEN strip(Tail(s))
    ELSE IF s[Len(s)] \in {" ", NL} THEN strip(SubSeq(s, 1, Len(s) - 1))
    ELSE s

\* value.split("|", 1)
split1(value) ==
    LET k == Find(value, "|") IN
    IF k = 0 THEN <<value>>
    ELSE <<SubSeq(value, 1, k - 1), SubSeq(value, k + 1, Len(value))>>

\* value.rsplit("|", 1)
rsplit1(value) ==
    LET k == RFind(value, "|") IN
    IF k = 0 THEN <<value>>
    ELSE <<SubSeq(value, 1, k - 1), SubSeq(value, k + 1, Len(value))>>

\* _choice splitting at the last "|" instead of the first.
choice_Mut(value) ==
    LET parts == [i \in 1..Len(rsplit1(value)) |-> strip(rsplit1(value)[i])]
    IN  IF Len(parts) = 1 THEN <<value, value>> ELSE parts

\* _choice of get_choices
choice(value) ==
    LET parts == [i \in 1..Len(split1(value)) |-> strip(split1(value)[i])]
    IN  IF Len(parts) = 1 THEN <<value, value>> ELSE parts

get_choices(text) ==
    LET lines == SelectSeq(splitlines(text), LAMBDA value : value # <<>>)
    IN  [i \in 1..Len(lines) |-> choice(lines[i])]

\* The fields of the row that may not be blank, with their values.
Required == [f \in {"label", "choices"} |->
                IF f = "label" THEN label ELSE choices]

\* super().clean_fields(exclude): the fields it reports, those that are
\* blank, may not be and are not excluded.
super_clean_fields(excl) ==
    {f \in DOMAIN Required : f \notin excl /\ Required[f] = <<>>}

\* feincms3.utils.validation_error: scoped to the field unless the field is
\* excluded from validation, and then a failure of the whole object.
validation_error(field, excl) ==
    IF field \in excl THEN {"__all__"} ELSE {field}

NoClean ==
    [called |-> FALSE, raised |-> FALSE, errors |-> {}, offending |-> <<>>,
     inherited |-> {}]

\* The default compared with the labels of the choices, not their values.
clean_fields_Mut(excl) ==
    LET inherited == super_clean_fields(excl)
        parsed == get_choices(choices)
    IN  IF inherited # {}
        THEN [called |-> TRUE, raised |-> TRUE, errors |-> inherited,
              offending |-> <<>>, inherited |-> inherited]
        ELSE IF /\ choices # <<>>
                /\ default_value # <<>>
                /\ default_value \notin
                        {parsed[i][2] : i \in 1..Len(parsed)}
        THEN [called |-> TRUE, raised |-> TRUE,
              errors |-> validation_error("default_value", excl),
              offending |-> default_value, inherited |-> {}]
        ELSE [called |-> TRUE, raised |-> FALSE, errors |-> {},
              offending |-> <<>>, inherited |-> {}]

\* clean_fields: the failure of super().clean_fields leaves first; then the
\* default is looked up among the keys of dict(self.get_choices()).
clean_fields(excl) ==
    LET inherited == super_clean_fields(excl)
        parsed == get_choices(choices)
    IN  IF inherited # {}
        THEN [called |-> TRUE, raised |-> TRUE, errors |-> inherited,
              offending |-> <<>>, inherited |-> inherited]
        ELSE IF /\ choices # <<>>
                /\ default_value # <<>>
                /\ default_value \notin
                        {parsed[i][1] : i \in 1..Len(parsed)}
        THEN [called |-> TRUE, raised |-> TRUE,
              errors |-> validation_error("default_value", excl),
              offending |-> default_value, inherited |-> {}]
        ELSE [called |-> TRUE, raised |-> FALSE, errors |-> {},
              offending |-> <<>>, inherited |-> {}]

NoChoices == [called |-> FALSE, value |-> <<>>]

SimpleIdle ==
    /\ choices = <<>>
    /\ default_value = <<>>
    /\ label = <<"L">>
    /\ exclude = {}
    /\ choicesOut = NoChoices
    /\ cleanOut = NoClean

ChoicesInit ==
    /\ choices \in Strings(ChoiceChars, MaxChoicesLen)
    /\ default_value = <<>>
    /\ label = <<"L">>
    /\ exclude = {}
    /\ choicesOut = NoChoices
    /\ cleanOut = NoClean

CleanInit ==
    /\ choices \in Strings(ChoiceChars, MaxCleanLen)
    /\ default_value \in Strings(DefaultChars, MaxDefaultLen)
    /\ label \in {<<>>, <<"L">>}
    /\ exclude \in SUBSET {"label", "choices", "default_value"}
    /\ choicesOut = NoChoices
    /\ cleanOut = NoClean

GetChoices ==
    /\ ~choicesOut.called
    /\ choicesOut' = [called |-> TRUE, value |-> get_choices(choices)]
    /\ UNCHANGED <<choices, default_value, label, exclude, cleanOut, notSimple>>

CleanFields ==
    /\ ~cleanOut.called
    /\ cleanOut' = clean_fields(exclude)
    /\ UNCHANGED <<choices, default_value, label, exclude, choicesOut,
                   notSimple>>

(***************************************************************************)
(* The test application's Honeypot plugin and HoneypotField                *)
(***************************************************************************)

MaxValueLen == 2

ValueChars == {"h", " "}

\* Honeypot.get_fields gives {"honeypot": HoneypotField()}; "first" is the
\* required text field of the row before it.  HoneypotField() passes no
\* required argument, so the field keeps Field's default, required=True.
FormFields == {"first", "honeypot"}
FieldRequired == [f \in FormFields |-> TRUE]
IsHoneypotField == [f \in FormFields |-> f = "honeypot"]

\* The widget's value_from_datadict and CharField.to_python: a missing key
\* and the empty string become "", other values are stripped.
CharField_to_python(data, f) ==
    IF f \in DOMAIN data THEN strip(data[f]) ELSE <<>>

\* Field.validate: an empty value of a required field is an error.
Field_validate(f, value) ==
    IF value = <<>> /\ FieldRequired[f] THEN "required" ELSE "ok"

\* HoneypotField.validate: super().validate(value) first, then any value
\* at all is an error.
HoneypotField_validate(f, value) ==
    IF Field_validate(f, value) # "ok" THEN Field_validate(f, value)
    ELSE IF value # <<>> THEN "invalid_honeypot"
    ELSE "ok"

\* Field.clean of one field of the form.
Field_clean(data, f) ==
    IF IsHoneypotField[f]
    THEN HoneypotField_validate(f, CharField_to_python(data, f))
    ELSE Field_validate(f, CharField_to_python(data, f))

NoForm == [called |-> FALSE, errors |-> <<>>]

Submissions ==
    UNION {[keys -> Strings(ValueChars, MaxValueLen)] :
                keys \in SUBSET FormFields}

FormIdle ==
    /\ submitted = <<>>
    /\ formOut = NoForm

FormInit ==
    /\ submitted \in Submissions
    /\ formOut = NoForm

\* form.is_valid(): every field cleaned, the errors kept by field.
IsValid ==
    /\ ~formOut.called
    /\ formOut' =
        [called |-> TRUE,
         errors |-> [f \in {g \in FormFields :
                                Field_clean(submitted, g) # "ok"} |->
                        Field_clean(submitted, f)]]
    /\ UNCHANGED <<submitted, notForm>>

(***************************************************************************)
(* The field-plugin contract: FormFieldBase and the classes under it       *)
(***************************************************************************)

MaxCalls == 2

ContractMethods == {"get_fields", "get_initial", "get_cleaners", "get_loaders"}

\* The methods each class body defines itself.
ClassMethods(cls, own) ==
    CASE cls = "FormFieldBase" -> ContractMethods
      [] cls = "FormField" -> {"get_fields", "get_loaders"}
      [] cls = "SimpleFieldBase" -> {"get_initial", "get_fields"}
      [] cls = "Duration" -> {"get_fields"}
      [] cls = "Honeypot" -> {"get_fields"}
      [] cls = "Custom" -> own
      [] OTHER -> {}

\* The method resolution order of each concrete class.  Custom is a plugin
\* declared as class Custom(FormFieldBase, ConfiguredFormPlugin).
MRO(cls) ==
    CASE cls = "SimpleField" ->
            <<"SimpleField", "SimpleFieldBase", "FormField", "FormFieldBase",
              "ConfiguredFormPlugin">>
      [] cls = "Duration" -> <<"Duration", "ConfiguredFormPlugin">>
      [] cls = "Honeypot" -> <<"Honeypot", "ConfiguredFormPlugin">>
      [] cls = "PlainText" -> <<"PlainText", "ConfiguredFormPlugin">>
      [] cls = "Custom" ->
            <<"Custom", "FormFieldBase", "ConfiguredFormPlugin">>

ConcreteClasses == {"SimpleField", "Duration", "Honeypot", "PlainText", "Custom"}

\* What the method does in the class that defines it.
MethodBody(cls, method) ==
    IF cls = "FormFieldBase"
    THEN CASE method = "get_fields" -> "NotImplementedError"
           [] method = "get_initial" -> "empty_mapping"
           [] method = "get_cleaners" -> "empty_sequence"
           [] method = "get_loaders" -> "NotImplementedError"
    ELSE "implemented"

\* instance.method(): the first class of the MRO that defines the method;
\* AttributeError when none does.
CallMethod(p, method) ==
    LET mro == MRO(p.name)
        defining == {i \in 1..Len(mro) : method \in ClassMethods(mro[i], p.own)}
    IN  IF defining = {} THEN "AttributeError"
        ELSE MethodBody(mro[CHOOSE i \in defining : \A j \in defining : i <= j],
                        method)

PluginIdle ==
    /\ plugin = [name |-> "SimpleField", own |-> {}]
    /\ calls = <<>>

PluginInit ==
    /\ \E name \in ConcreteClasses, own \in SUBSET ContractMethods :
        /\ name # "Custom" => own = {}
        /\ plugin = [name |-> name, own |-> own]
    /\ calls = <<>>

Call ==
    \E method \in ContractMethods :
        /\ Len(calls) < MaxCalls
        /\ calls' = Append(calls, [method |-> method,
                                   outcome |-> CallMethod(plugin, method)])
        /\ UNCHANGED <<plugin, notPlugin>>

(***************************************************************************)
(* FormField.get_field and SimpleFieldBase.get_fields                      *)
(***************************************************************************)

\* The widget attribute of a form field class of django.forms.
DefaultWidget(form_class) ==
    CASE form_class = "CharField" -> "TextInput"
      [] form_class = "EmailField" -> "EmailInput"
      [] form_class = "URLField" -> "URLInput"
      [] form_class = "IntegerField" -> "NumberInput"

\* get_field with the row's is_required passed on whether shown or not.
get_field_Mut(self, form_class, should_show, widget) ==
    self.name :> [form_class |-> form_class, required |-> self.is_required,
                  widget |-> widget]

\* The mapping {self.name: form_class(required=..., widget=...)}.  A widget
\* given as a class is instantiated by the form field; the model names the
\* widget by its class either way.
get_field(self, form_class, should_show, widget) ==
    LET is_required == IF should_show THEN self.is_required ELSE FALSE
    IN  self.name :> [form_class |-> form_class, required |-> is_required,
                      widget |-> widget]

Built(fields) == [raised |-> FALSE, fields |-> fields]

ImproperlyConfigured == [raised |-> TRUE, fields |-> <<>>]

get_fields(self, is_update) ==
    LET should_show == should_show_field(self, is_update)
        Field(form_class, widget) ==
            Built(get_field(self, form_class, should_show,
                            IF should_show THEN widget ELSE "HiddenInput"))
        MultipleField(form_class, widget) ==
            Built(get_field(self, form_class, should_show,
                            IF should_show THEN widget
                            ELSE "MultipleHiddenInput"))
    IN  IF self.type = "text"
        THEN Field("CharField", DefaultWidget("CharField"))
        ELSE IF self.type = "email"
        THEN Field("EmailField", DefaultWidget("EmailField"))
        ELSE IF self.type = "url"
        THEN Field("URLField", DefaultWidget("URLField"))
        ELSE IF self.type = "date"
        THEN Field("DateField", "DateInput")
        ELSE IF self.type = "integer"
        THEN Field("IntegerField", DefaultWidget("IntegerField"))
        ELSE IF self.type = "textarea"
        THEN Field("CharField", "Textarea")
        ELSE IF self.type = "checkbox"
        THEN Field("BooleanField", "CheckboxInput")
        ELSE IF self.type = "select"
        THEN Field("ChoiceField", "Select2Widget")
        ELSE IF self.type = "radio"
        THEN Field("ChoiceField", "RadioSelect")
        ELSE IF self.type = "select-multiple"
        THEN MultipleField("MultipleChoiceField", "SelectMultiple")
        ELSE IF self.type = "checkbox-select-multiple"
        THEN MultipleField("MultipleChoiceField", "CheckboxSelectMultiple")
        ELSE ImproperlyConfigured

NoBuilt == [called |-> FALSE, is_update |-> FALSE, out |-> Built(<<>>)]

FieldsIdle == built = NoBuilt

FieldsInit ==
    /\ row \in Rows
    /\ shown = NoShow
    /\ built = NoBuilt

\* get_fields(is_update=...); is_update defaults to False when not passed.
GetFields ==
    \E is_update \in BOOLEAN :
        /\ built' = [called |-> TRUE, is_update |-> is_update,
                     out |-> get_fields(row, is_update)]
        /\ UNCHANGED notFields

(***************************************************************************)
(* SimpleFieldBase.proxy and SimpleFieldBase.save                          *)
(***************************************************************************)

\* SimpleField of the test application: a concrete model without TYPE.
SimpleField == [name |-> "SimpleField", proxy |-> FALSE, attrs |-> <<>>]

\* cls.proxy(type_name): a proxy subclass of cls whose class attribute TYPE
\* is type_name.  A proxy has no table of its own: its rows are those of cls.
proxy(cls, type_name) ==
    [name |-> cls.name, proxy |-> TRUE, attrs |-> ("TYPE" :> type_name)]

\* The kinds the test application creates a proxy for.
ProxyTypes ==
    {"text", "email", "url", "date", "integer", "textarea", "checkbox",
     "select", "radio"}

SimpleClasses == {SimpleField} \cup {proxy(SimpleField, t) : t \in ProxyTypes}

\* The values assigned to type in the model: the kinds and two others.
AssignedTypes == Type \cup {Unsaved, "bogus"}

\* Two of the columns of the table.
Columns == {"type", "label"}

\* The update_fields argument of save: not given (None), which stands for
\* all columns, or a list of column names.
UpdateFields ==
    {[given |-> FALSE, fields |-> Columns]}
        \cup {[given |-> TRUE, fields |-> {c}] : c \in Columns}

hasattr(self, attr) == attr \in DOMAIN self.cls.attrs

NoRow == [exists |-> FALSE, type |-> Unsaved, by |-> "none"]

\* Model.save(update_fields=...) for the type column: an instance without a
\* primary key is inserted, unless update_fields is given, which is an error;
\* an instance with one has the columns of update_fields (all of them when
\* none is given) updated.  by records whose write the type of the row is.
super_save(self, table, update_fields) ==
    IF ~self.pk /\ update_fields.given
    THEN [inst |-> self, stored |-> table, outcome |-> "ValueError"]
    ELSE [inst |-> [self EXCEPT !.pk = TRUE],
          stored |-> IF "type" \in update_fields.fields
                     THEN [exists |-> TRUE, type |-> self.type, by |-> "self"]
                     ELSE table,
          outcome |-> "saved"]

\* save without the assignment of TYPE.
save_Mut(self, table, update_fields) == super_save(self, table, update_fields)

save(self, table, update_fields) ==
    IF hasattr(self, "TYPE")
    THEN super_save([self EXCEPT !.type = self.cls.attrs["TYPE"]], table,
                    update_fields)
    ELSE super_save(self, table, update_fields)

NoSave ==
    [called |-> FALSE, update_fields |-> [given |-> FALSE, fields |-> Columns],
     before |-> Unsaved, outcome |-> "none"]

SaveIdle ==
    /\ inst = [cls |-> SimpleField, type |-> Unsaved, pk |-> FALSE]
    /\ stored = NoRow
    /\ lastSave = NoSave

\* The instance is either constructed, without a row, or fetched through its
\* class's manager, which returns the rows of the shared table whatever their
\* type is.
SaveInit ==
    /\ \E cls \in SimpleClasses :
        \/ /\ inst = [cls |-> cls, type |-> Unsaved, pk |-> FALSE]
           /\ stored = NoRow
        \/ \E t \in Type :
            /\ inst = [cls |-> cls, type |-> t, pk |-> TRUE]
            /\ stored = [exists |-> TRUE, type |-> t, by |-> "other"]
    /\ lastSave = NoSave

\* instance.type = value
AssignType ==
    \E value \in AssignedTypes :
        /\ inst' = [inst EXCEPT !.type = value]
        /\ UNCHANGED <<stored, lastSave, notSave>>

\* instance.save() and instance.save(update_fields=[...])
Save ==
    \E update_fields \in UpdateFields :
        LET r == save(inst, stored, update_fields)
        IN  /\ inst' = r.inst
            /\ stored' = r.stored
            /\ lastSave' = [called |-> TRUE, update_fields |-> update_fields,
                            before |-> inst.type, outcome |-> r.outcome]
            /\ UNCHANGED notSave

(***************************************************************************)
(* ConfiguredForm.regions and ConfiguredForm.fill_form_choices             *)
(***************************************************************************)

MaxReads == 2

\* A list of regions is the sequence of the keys of its regions.
StaticRegions(list) == [callable |-> FALSE, list |-> list]

\* A function of the instance: here the regions of list followed by one
\* region named after the form_type the instance has when it is called.
CallableRegions(list) == [callable |-> TRUE, list |-> list]

\* FORMS of the test application's ConfiguredForm, followed by two form
\* types that reach the other branches of regions: one whose regions is
\* callable and one that has no regions item.
FORMS ==
    << [key |-> "contact", regions |-> StaticRegions(<<"form">>)],
       [key |-> "other-fields", regions |-> StaticRegions(<<>>)],
       [key |-> "wizard", regions |-> CallableRegions(<<"form">>)],
       [key |-> "bare"] >>

\* The values form_type takes in the model: the keys and two strings that
\* are the key of no form type.
FormTypeValues == {FORMS[i].key : i \in 1..Len(FORMS)} \cup {"", "gone"}

\* types = {type.key: type for type in sender.FORMS}
types ==
    LET keys == {FORMS[i].key : i \in 1..Len(FORMS)}
        last(k) == CHOOSE i \in 1..Len(FORMS) :
                       /\ FORMS[i].key = k
                       /\ \A j \in 1..Len(FORMS) : FORMS[j].key = k => j <= i
    IN  [k \in keys |-> FORMS[last(k)]]

\* regions(self) for a callable regions.
call(regions, self) == regions.list \o <<self.form_type>>

\* The body of the regions property: [] when self.type is None
\* (AttributeError) or has no regions item (KeyError).
regions_func(self) ==
    IF self.form_type \notin DOMAIN types THEN <<>>
    ELSE LET type == types[self.form_type]
         IN  IF "regions" \notin DOMAIN type THEN <<>>
             ELSE IF type.regions.callable THEN call(type.regions, self)
             ELSE type.regions.list

\* regions as a plain property: computed at every read.
regions_Mut(self) == [value |-> regions_func(self), self |-> self]

\* cached_property: the value of the instance __dict__ when it has one, else
\* the value computed now, which is stored in the instance __dict__.
regions(self) ==
    IF "regions" \in DOMAIN self.dict
    THEN [value |-> self.dict["regions"], self |-> self]
    ELSE LET value == regions_func(self)
         IN  [value |-> value,
              self |-> [self EXCEPT !.dict = ("regions" :> value)]]

RegionsIdle ==
    /\ cform = [form_type |-> "", dict |-> <<>>]
    /\ reads = <<>>

RegionsInit ==
    /\ \E form_type \in FormTypeValues :
        cform = [form_type |-> form_type, dict |-> <<>>]
    /\ reads = <<>>

\* instance.regions
ReadRegions ==
    /\ Len(reads) < MaxReads
    /\ LET r == regions(cform)
       IN  /\ cform' = r.self
           /\ reads' = Append(reads, [form_type |-> cform.form_type,
                                      value |-> r.value])
    /\ UNCHANGED notRegions

\* instance.form_type = value
SetFormType ==
    \E value \in FormTypeValues :
        /\ cform' = [cform EXCEPT !.form_type = value]
        /\ UNCHANGED <<reads, notRegions>>

(***************************************************************************)
(* Specifications                                                          *)
(***************************************************************************)

InitShow ==
    /\ ShowInit
    /\ NameIdle /\ TypeIdle /\ UnionIdle
    /\ SimpleIdle /\ FormIdle /\ PluginIdle /\ FieldsIdle /\ SaveIdle
    /\ RegionsIdle
NextShow == ShouldShowField
SpecShow == InitShow /\ [][NextShow]_vars

InitName ==
    /\ NameInit
    /\ ShowIdle /\ TypeIdle /\ UnionIdle
    /\ SimpleIdle /\ FormIdle /\ PluginIdle /\ FieldsIdle /\ SaveIdle
    /\ RegionsIdle
NextName == NameClean
SpecName == InitName /\ [][NextName]_vars

InitType ==
    /\ TypeInit
    /\ ShowIdle /\ NameIdle /\ UnionIdle
    /\ SimpleIdle /\ FormIdle /\ PluginIdle /\ FieldsIdle /\ SaveIdle
    /\ RegionsIdle
NextType == Getattr \/ Rebind
SpecType == InitType /\ [][NextType]_vars

InitUnion ==
    /\ UnionInit
    /\ ShowIdle /\ NameIdle /\ TypeIdle
    /\ SimpleIdle /\ FormIdle /\ PluginIdle /\ FieldsIdle /\ SaveIdle
    /\ RegionsIdle
NextUnion == AddRow \/ GetFormfieldsUnion
SpecUnion == InitUnion /\ [][NextUnion]_vars

InitChoices ==
    /\ ChoicesInit
    /\ ShowIdle /\ NameIdle /\ TypeIdle
    /\ UnionIdle /\ FormIdle /\ PluginIdle /\ FieldsIdle /\ SaveIdle
    /\ RegionsIdle
NextChoices == GetChoices
SpecChoices == InitChoices /\ [][NextChoices]_vars

InitClean ==
    /\ CleanInit
    /\ ShowIdle /\ NameIdle /\ TypeIdle
    /\ UnionIdle /\ FormIdle /\ PluginIdle /\ FieldsIdle /\ SaveIdle
    /\ RegionsIdle
NextClean == CleanFields
SpecClean == InitClean /\ [][NextClean]_vars

InitForm ==
    /\ FormInit
    /\ ShowIdle /\ NameIdle /\ TypeIdle
    /\ UnionIdle /\ SimpleIdle /\ PluginIdle /\ FieldsIdle /\ SaveIdle
    /\ RegionsIdle
NextForm == IsValid
SpecForm == InitForm /\ [][NextForm]_vars

InitPlugin ==
    /\ PluginInit
    /\ ShowIdle /\ NameIdle /\ TypeIdle
    /\ UnionIdle /\ SimpleIdle /\ FormIdle /\ FieldsIdle /\ SaveIdle
    /\ RegionsIdle
NextPlugin == Call
SpecPlugin == InitPlugin /\ [][NextPlugin]_vars

InitFields ==
    /\ FieldsInit
    /\ NameIdle /\ TypeIdle /\ UnionIdle
    /\ SimpleIdle /\ FormIdle /\ PluginIdle /\ SaveIdle /\ RegionsIdle
NextFields == GetFields
SpecFields == InitFields /\ [][NextFields]_vars

InitSave ==
    /\ SaveInit
    /\ ShowIdle /\ NameIdle /\ TypeIdle /\ UnionIdle
    /\ SimpleIdle /\ FormIdle /\ PluginIdle /\ FieldsIdle /\ RegionsIdle
NextSave == AssignType \/ Save
SpecSave == InitSave /\ [][NextSave]_vars

InitRegions ==
    /\ RegionsInit
    /\ ShowIdle /\ NameIdle /\ TypeIdle /\ UnionIdle
    /\ SimpleIdle /\ FormIdle /\ PluginIdle /\ FieldsIdle /\ SaveIdle
NextRegions == ReadRegions \/ SetFormType
SpecRegions == InitRegions /\ [][NextRegions]_vars

(***************************************************************************)
(* Claims                                                                  *)
(***************************************************************************)

\* C1: should_show_field(is_update) is False whenever is_visible is False;
\* True whenever is_visible and is_editable are True; True when visible, not
\* editable and not is_update; False when visible, not editable and is_update.
C1_ShouldShowTable ==
    shown.called =>
        /\ (~row.is_visible => shown.result = FALSE)
        /\ (row.is_visible /\ row.is_editable => shown.result = TRUE)
        /\ (row.is_visible /\ ~row.is_editable /\ ~shown.is_update
                => shown.result = TRUE)
        /\ (row.is_visible /\ ~row.is_editable /\ shown.is_update
                => shown.result = FALSE)

C1_Witness ==
    /\ shown.called
    /\ row.is_visible /\ ~row.is_editable /\ shown.is_update
    /\ shown.result = FALSE

\* The generated token: field_ followed by ten characters of [a-z0-9].
IsToken(value) ==
    /\ Len(value) = Len(FieldPrefix) + 10
    /\ SubSeq(value, 1, Len(FieldPrefix)) = FieldPrefix
    /\ \A i \in (Len(FieldPrefix) + 1)..Len(value) :
            value[i] \in RANDOM_STRING_CHARS

\* Every character of s is one of a-z, 0-9 and the underscore.
InCharacterSet(s) == \A i \in 1..Len(s) : s[i] \in NameAllowed

\* C2: an empty name is normalized to a token field_<10 of [a-z0-9]>; a
\* non-empty name made of a-z, 0-9 and _ only is returned unchanged; a
\* non-empty name with any other character is rejected by validation and is
\* not replaced by a token.
C2_NameNormalization ==
    nameOut.done =>
        /\ (nameIn = <<>> => IsToken(nameOut.value) /\ ~nameOut.invalid)
        /\ (nameIn # <<>> /\ InCharacterSet(nameIn)
                => nameOut.value = nameIn /\ ~nameOut.invalid)
        /\ (nameIn # <<>> /\ ~InCharacterSet(nameIn)
                => nameOut.invalid /\ nameOut.value = nameIn)

\* The accesses of attr made before the i-th access.
Earlier(i, attr) == {j \in 1..(i - 1) : log[j].attr = attr}

First(i, attr) == CHOOSE j \in Earlier(i, attr) : \A k \in Earlier(i, attr) : j <= k

\* The item of attr is a string matching the dotted-path pattern.
PathLike(attr) ==
    /\ attr \in DOMAIN ft_kwargs
    /\ ft_kwargs[attr].kind = "str"
    /\ RegexMatch(ft_kwargs[attr].path)

\* The module of the path exists and has the attribute.
Resolvable(path) ==
    /\ SubSeq(path, 1, Len(path) - 1) \in Modules
    /\ path[Len(path)] \in ModuleAttrs(SubSeq(path, 1, Len(path) - 1))

\* C3: for an attribute holding a resolvable dotted path, the first access
\* returns the object the path resolves to, and every later access of that
\* attribute returns the identical object without importing again.
C3_Memoized ==
    \A i \in 1..Len(log) :
        LET a == log[i].attr IN
        (PathLike(a) /\ Resolvable(ft_kwargs[a].path)) =>
            IF Earlier(i, a) = {}
            THEN /\ log[i].outcome = "value"
                 /\ log[i].imported
                 /\ log[i].value = ObjValue(ft_kwargs[a].path, log[i].bind)
            ELSE /\ log[i].outcome = "value"
                 /\ ~log[i].imported
                 /\ log[i].value = log[First(i, a)].value

C3_Witness ==
    /\ Len(log) >= 2
    /\ log[1].attr = "validate" /\ log[2].attr = "validate"
    /\ PathLike("validate") /\ Resolvable(ft_kwargs["validate"].path)
    /\ log[2].bind > log[1].bind
    /\ log[2].value = log[1].value /\ log[2].value.kind = "obj"

\* C4: for an attribute holding a string that matches the dotted-path pattern
\* and cannot be resolved (module not found, or attribute not found in an
\* existing module), the access returns the raw string and raises nothing.
C4_SilentFailure ==
    \A i \in 1..Len(log) :
        LET a == log[i].attr IN
        (PathLike(a) /\ ~Resolvable(ft_kwargs[a].path)) =>
            /\ log[i].outcome = "value"
            /\ log[i].value = ft_kwargs[a]

\* The plugin classes of the call that are FormFieldBase subclasses.
Eligible == {c \in Plugins : /\ \E i \in 1..Len(unionOut.plugins) :
                                    unionOut.plugins[i] = c
                             /\ classes[c].fieldbase}

Requested == {unionOut.attributes[k] : k \in 1..Len(unionOut.attributes)}

\* The value the resolution order gives attribute a of row r of class c: the
\* column, else the class's Python attribute, else the default.
Resolved(c, r, a) ==
    IF a \in classes[c].columns THEN r.cols[a]
    ELSE IF a \in DOMAIN classes[c].classattrs
            /\ classes[c].classattrs[a] # PyNone
    THEN classes[c].classattrs[a]
    ELSE IF a = "is_collapsible" THEN PyBool(FALSE) ELSE PyStr("")

\* C5: every row of an eligible plugin class whose parent is the target has
\* an entry (name, attrs) whose keys are exactly the requested attributes and
\* whose values are the column value, else the class's Python attribute
\* value, else the default (False for is_collapsible).
C5_UnionValues ==
    (unionOut.called /\ unionOut.outcome = "value") =>
        \A c \in Eligible :
            \A i \in 1..Len(tables[c]) :
                tables[c][i].parent = Self =>
                    \E k \in 1..Len(unionOut.value) :
                        /\ unionOut.value[k].name = tables[c][i].name
                        /\ DOMAIN unionOut.value[k].attrs = Requested
                        /\ \A a \in Requested :
                            unionOut.value[k].attrs[a]
                                = Resolved(c, tables[c][i], a)

\* The ordering of the row named n.
OrderingOf(n) ==
    LET c == CHOOSE c \in Plugins :
                \E i \in 1..Len(tables[c]) : tables[c][i].name = n
        i == CHOOSE i \in 1..Len(tables[c]) : tables[c][i].name = n
    IN  tables[c][i].ordering

\* C6: the entries get_formfields_union returns are in the order of the
\* rows' ordering within the aggregate, also when rows of different plugin
\* classes are interleaved.
C6_UnionOrder ==
    (unionOut.called /\ unionOut.outcome = "value") =>
        \A i, j \in 1..Len(unionOut.value) :
            i < j => OrderingOf(unionOut.value[i].name)
                        <= OrderingOf(unionOut.value[j].name)

\* The positions where a non-empty line of s starts.
LineStarts(s) ==
    {p \in 1..Len(s) : s[p] # NL /\ (p = 1 \/ s[p - 1] = NL)}

\* The line of s that starts at p: up to the next line break.
LineAt(s, p) ==
    LET e == CHOOSE e \in p..Len(s) :
                /\ \A q \in p..e : s[q] # NL
                /\ (e = Len(s) \/ s[e + 1] = NL)
    IN  SubSeq(s, p, e)

\* The non-empty lines of s, in order.
NonEmptyLines(s) ==
    LET S == LineStarts(s)
        f == CHOOSE f \in [1..Cardinality(S) -> S] :
                \A i, j \in 1..Cardinality(S) : i < j => f[i] < f[j]
    IN  [i \in 1..Cardinality(S) |-> LineAt(s, f[i])]

HasBar(line) == \E p \in 1..Len(line) : line[p] = "|"

FirstBar(line) ==
    CHOOSE p \in 1..Len(line) :
        line[p] = "|" /\ \A q \in 1..(p - 1) : line[q] # "|"

BeforeBar(line) == SubSeq(line, 1, FirstBar(line) - 1)
AfterBar(line) == SubSeq(line, FirstBar(line) + 1, Len(line))

\* x without the blanks at its two ends.
Trimmed(x) ==
    LET keep == {i \in 1..Len(x) : x[i] # " "} IN
    IF keep = {} THEN <<>>
    ELSE SubSeq(x, CHOOSE i \in keep : \A j \in keep : i <= j,
                   CHOOSE i \in keep : \A j \in keep : i >= j)

\* C7 as stated: every non-empty line yields one pair, in line order, and
\* empty lines none; a line without "|" yields (line, line); a line with "|"
\* yields (the text before the first "|", the text after it).
C7_ChoicesAsStated ==
    choicesOut.called =>
        LET L == NonEmptyLines(choices) IN
        /\ Len(choicesOut.value) = Len(L)
        /\ \A i \in 1..Len(L) :
            choicesOut.value[i] =
                IF HasBar(L[i]) THEN <<BeforeBar(L[i]), AfterBar(L[i])>>
                ELSE <<L[i], L[i]>>

\* C7, amended: as stated, except that for a line with "|" the text before
\* the first "|" and the text after it are each stripped of the whitespace
\* at their ends; a line without "|" is taken as it is.
C7_ChoicesStripped ==
    choicesOut.called =>
        LET L == NonEmptyLines(choices) IN
        /\ Len(choicesOut.value) = Len(L)
        /\ \A i \in 1..Len(L) :
            choicesOut.value[i] =
                IF HasBar(L[i])
                THEN <<Trimmed(BeforeBar(L[i])), Trimmed(AfterBar(L[i]))>>
                ELSE <<L[i], L[i]>>

C7_Witness ==
    /\ choicesOut.called
    /\ choices = <<"a", " ", "|", "b">>
    /\ choicesOut.value = << <<(<<"a">>), (<<"b">>)>> >>

\* The values of the parsed choices.
ParsedValues ==
    {get_choices(choices)[i][1] : i \in 1..Len(get_choices(choices))}

\* C8 as stated: with choices and default_value non-empty, clean_fields
\* raises a failure scoped to default_value and naming the value exactly
\* when the value is not among the parsed choice values; with one of them
\* empty the check raises nothing.
C8_DefaultAsStated ==
    cleanOut.called =>
        /\ (choices # <<>> /\ default_value # <<>>) =>
            ((/\ cleanOut.raised
              /\ cleanOut.errors = {"default_value"}
              /\ cleanOut.offending = default_value)
                <=> default_value \notin ParsedValues)
        /\ (choices = <<>> \/ default_value = <<>>) =>
            (cleanOut.offending = <<>> /\ "default_value" \notin cleanOut.errors)

\* The inherited cleaning fails: a field that may not be blank is blank and
\* not excluded.
InheritedFails ==
    \/ (label = <<>> /\ "label" \notin exclude)
    \/ (choices = <<>> /\ "choices" \notin exclude)

\* C8, amended: when the inherited cleaning fails, its failure is what
\* clean_fields raises and the default is not checked.  Otherwise, with
\* choices and default_value non-empty, clean_fields raises a failure naming
\* the value exactly when the value is not among the parsed choice values,
\* scoped to default_value unless default_value is excluded, and then a
\* failure of the whole object; with one of them empty it raises nothing.
C8_DefaultChecked ==
    cleanOut.called =>
        IF InheritedFails
        THEN /\ cleanOut.raised
             /\ cleanOut.offending = <<>>
             /\ cleanOut.errors \subseteq {"label", "choices"}
        ELSE /\ (choices # <<>> /\ default_value # <<>>) =>
                /\ cleanOut.raised <=> default_value \notin ParsedValues
                /\ cleanOut.raised =>
                    /\ cleanOut.offending = default_value
                    /\ cleanOut.errors =
                        IF "default_value" \in exclude THEN {"__all__"}
                        ELSE {"default_value"}
             /\ (choices = <<>> \/ default_value = <<>>) => ~cleanOut.raised

C8_Witness ==
    /\ cleanOut.called
    /\ choices = <<"a", "|", "b">>
    /\ default_value = <<"b">>
    /\ cleanOut.raised
    /\ cleanOut.errors = {"default_value"}
    /\ cleanOut.offending = <<"b">>

\* C9: the honeypot field accepts an empty submitted value, so that
\* {"first": "hello", "honeypot": ""} validates, and rejects every non-empty
\* submitted value with a failure attached to the honeypot field.
C9_Honeypot ==
    (formOut.called /\ "honeypot" \in DOMAIN submitted) =>
        /\ submitted["honeypot"] = <<>> =>
            /\ "honeypot" \notin DOMAIN formOut.errors
            /\ (("first" \in DOMAIN submitted /\ submitted["first"] = <<"h">>)
                    => formOut.errors = <<>>)
        /\ submitted["honeypot"] # <<>> =>
            "honeypot" \in DOMAIN formOut.errors

\* The classes that are field plugins: they define or inherit get_fields.
FieldPlugins == ConcreteClasses \ {"PlainText"}

\* The method is implemented by the class or an ancestor other than
\* FormFieldBase.
Overridden(method) ==
    \E i \in 1..Len(MRO(plugin.name)) :
        /\ MRO(plugin.name)[i] # "FormFieldBase"
        /\ method \in ClassMethods(MRO(plugin.name)[i], plugin.own)

\* C10: for every concrete field-plugin class, get_initial returns an empty
\* mapping and get_cleaners an empty sequence unless overridden, and
\* get_fields and get_loaders raise NotImplementedError unless implemented,
\* also for classes that define get_fields only (Honeypot, Duration); a
\* method that is implemented raises nothing.
C10_ContractDefaults ==
    plugin.name \in FieldPlugins =>
        \A i \in 1..Len(calls) :
            LET method == calls[i].method IN
            IF Overridden(method) THEN calls[i].outcome = "implemented"
            ELSE calls[i].outcome =
                    CASE method = "get_initial" -> "empty_mapping"
                      [] method = "get_cleaners" -> "empty_sequence"
                      [] OTHER -> "NotImplementedError"

\* The single-valued and the multi-valued kinds of SimpleFieldBase.Type.
MultiValued == {"select-multiple", "checkbox-select-multiple"}

\* The widget a kind is rendered with when it is shown.
VisibleWidget(kind) ==
    CASE kind = "text" -> "TextInput"
      [] kind = "email" -> "EmailInput"
      [] kind = "url" -> "URLInput"
      [] kind = "date" -> "DateInput"
      [] kind = "integer" -> "NumberInput"
      [] kind = "textarea" -> "Textarea"
      [] kind = "checkbox" -> "CheckboxInput"
      [] kind = "select" -> "Select2Widget"
      [] kind = "radio" -> "RadioSelect"
      [] kind = "select-multiple" -> "SelectMultiple"
      [] kind = "checkbox-select-multiple" -> "CheckboxSelectMultiple"

\* C11: for a row of a kind of the enumeration, get_fields returns a mapping
\* with exactly one key, the row's name; when should_show_field(is_update)
\* is False the field has required = False and a hidden-input widget (the
\* multiple-value one for the multi-valued kinds); when it is True required
\* is the row's is_required and the widget is the kind's visible widget.
C11_HiddenWhenNotShown ==
    (built.called /\ row.type \in Type) =>
        /\ ~built.out.raised
        /\ DOMAIN built.out.fields = {row.name}
        /\ LET field == built.out.fields[row.name]
               show == IF ~row.is_visible THEN FALSE
                       ELSE row.is_editable \/ ~built.is_update
           IN  IF show
               THEN /\ field.required = row.is_required
                    /\ field.widget = VisibleWidget(row.type)
               ELSE /\ field.required = FALSE
                    /\ field.widget = IF row.type \in MultiValued
                                      THEN "MultipleHiddenInput"
                                      ELSE "HiddenInput"

\* A required multi-valued row that is not shown on update has been built.
C11_Witness ==
    /\ built.called /\ built.is_update
    /\ row.type \in MultiValued
    /\ row.is_visible /\ ~row.is_editable /\ row.is_required
    /\ ~built.out.raised

\* The TYPE constant of the class of the instance.
TYPE == inst.cls.attrs["TYPE"]

\* C12: for an instance of a proxy subclass, whatever was assigned to type
\* between the saves, every save that writes the type column stores the
\* subclass's TYPE, and a row whose type the instance has stored carries
\* TYPE ever after: no sequence of assignments and saves makes it differ.
C12_TypeFromSubclass ==
    inst.cls.proxy =>
        /\ (stored.by = "self" => stored.type = TYPE)
        /\ (lastSave.called /\ lastSave.outcome = "saved"
                /\ "type" \in lastSave.update_fields.fields
              => stored.type = TYPE)

\* A proxy instance was assigned another type, then saved, and its row was
\* written.
C12_Witness ==
    /\ inst.cls.proxy
    /\ lastSave.called /\ lastSave.outcome = "saved"
    /\ lastSave.before \in Type \ {TYPE}
    /\ "type" \in lastSave.update_fields.fields
    /\ stored.exists

\* The form types declared with the key; the last declaration is the one
\* form_type resolves to.
Declared(key) == {i \in 1..Len(FORMS) : FORMS[i].key = key}

ResolvedType(key) ==
    FORMS[CHOOSE i \in Declared(key) : \A j \in Declared(key) : j <= i]

\* The regions of the form type of key for an instance whose form_type is
\* key: the static list, or what the callable returns for the instance.
RegionsOfType(key) ==
    LET declared == ResolvedType(key).regions
    IN  IF declared.callable THEN declared.list \o <<key>> ELSE declared.list

HasRegions(key) ==
    Declared(key) # {} /\ "regions" \in DOMAIN ResolvedType(key)

\* C13: the first read of regions returns the regions of the form type that
\* form_type resolves to at that read (the list itself, or the result of
\* calling it with the instance), or the empty list when form_type is the
\* key of no declared form type; every later read returns the value of the
\* first, whatever form_type has become.
C13_RegionsFixedAtFirstRead ==
    reads # <<>> =>
        /\ Declared(reads[1].form_type) = {} => reads[1].value = <<>>
        /\ HasRegions(reads[1].form_type)
              => reads[1].value = RegionsOfType(reads[1].form_type)
        /\ \A i \in 1..Len(reads) : reads[i].value = reads[1].value

\* regions was read, form_type was changed to a form type with other
\* regions, and the next read disagrees with the current form type.
C13_Witness ==
    /\ Len(reads) >= 2
    /\ reads[2].form_type # reads[1].form_type
    /\ HasRegions(reads[1].form_type) /\ HasRegions(reads[2].form_type)
    /\ reads[2].value # RegionsOfType(reads[2].form_type)

====
